---- MODULE Spec2Model ----
(***************************************************************************)
(* Model of simple-calc: the interactive loop of Application::run and the  *)
(* tokenize -> toPostfix -> evaluatePostfix pipeline of class Calculator,  *)
(* in its two builds: src/clean/main.cpp ("clean") and src/main.cpp        *)
(* ("trace", the same pipeline with trace prints on std::cout).            *)
(*                                                                         *)
(* Strings are sequences of one-character strings.  A double is modelled   *)
(* as an exact rational [num, den] in lowest terms with den > 0; a double  *)
(* the rationals of the model cannot hold exactly (magnitude above Cap,    *)
(* an infinity, a NaN, an irrational power) is the single value Beyond.    *)
(* Rounding of doubles is not modelled.                                    *)
(***************************************************************************)
EXTENDS Integers, Sequences, FiniteSets, TLC

VARIABLES
    build,    \* which main.cpp was compiled: "clean" or "trace"
    stdin,    \* the lines std::cin still holds
    expr,     \* Calculator::expr
    result,   \* Calculator::result
    pc,       \* position of Application::run
    tokens,   \* evaluateExpr's local `tokens` (last value it held)
    postfix,  \* evaluateExpr's local `postfix` (last value it held)
    st,       \* evaluatePostfix's local stack `st` (last value it held)
    exc,      \* the exception in flight: [type, what, stage]
    out,      \* what was written to std::cout since the last prompt
    err,      \* what was written to std::cerr since the last prompt
    prev,     \* history: Calculator::result when the current line was read
    history   \* history: <<expr, outcome>> of the evaluateExpr calls so far

vars == <<build, stdin, expr, result, pc, tokens, postfix, st, exc, out, err,
          prev, history>>

----------------------------------------------------------------------------
(* Bounds of the model *)

\* Largest numerator or denominator a modelled double holds exactly.
Cap == 30000

\* Longest literal (digits and '.') whose value std::stod is modelled to
\* compute exactly; longer in-range literals become Beyond.
MaxExactDigits == 8

\* Lines of one session; the history keeps one evaluation more than that (the
\* first one at end of input) and no later ones.
SessionLen == 3

----------------------------------------------------------------------------
(* double *)

Beyond == [num |-> 0, den |-> 0]

Abs(n) == IF n < 0 THEN 0 - n ELSE n

RECURSIVE GCD(_, _)
GCD(a, b) == IF b = 0 THEN a ELSE GCD(b, a % b)

\* the double n/d, d > 0
Rat(n, d) ==
    LET g == GCD(Abs(n), d) IN
    IF Abs(n) \div g > Cap \/ d \div g > Cap
    THEN Beyond
    ELSE [num |-> (IF n < 0 THEN 0 - (Abs(n) \div g) ELSE n \div g),
          den |-> d \div g]

IsBeyond(x) == x.den = 0

Zero == [num |-> 0, den |-> 1]

Neg(x) == IF IsBeyond(x) THEN Beyond ELSE Rat(0 - x.num, x.den)

Add(x, y) ==
    IF IsBeyond(x) \/ IsBeyond(y) THEN Beyond
    ELSE Rat(x.num * y.den + y.num * x.den, x.den * y.den)

Sub(x, y) ==
    IF IsBeyond(x) \/ IsBeyond(y) THEN Beyond
    ELSE Rat(x.num * y.den - y.num * x.den, x.den * y.den)

Mul(x, y) ==
    IF IsBeyond(x) \/ IsBeyond(y) THEN Beyond
    ELSE Rat(x.num * y.num, x.den * y.den)

\* x / y for y # 0
Div(x, y) ==
    IF IsBeyond(x) \/ IsBeyond(y) THEN Beyond
    ELSE IF y.num < 0 THEN Rat((0 - x.num) * y.den, x.den * (0 - y.num))
    ELSE Rat(x.num * y.den, x.den * y.num)

\* x^e for a natural e by repeated multiplication, acc the product so far;
\* it stops as soon as the product is Beyond
RECURSIVE PowAcc(_, _, _)
PowAcc(x, e, acc) ==
    IF e = 0 \/ IsBeyond(acc) THEN acc
    ELSE PowAcc(x, e - 1, Mul(acc, x))

One == [num |-> 1, den |-> 1]

PowNat(x, e) ==
    IF e = 0 \/ x = One THEN One
    ELSE IF x = Zero THEN Zero
    ELSE IF x = Neg(One) THEN (IF e % 2 = 0 THEN One ELSE Neg(One))
    ELSE PowAcc(x, e, One)

\* pow(x, y) of <cmath>: exact for an integer exponent; pow(0, negative) is
\* an infinity and a fractional exponent is not rational in general.
pow(x, y) ==
    IF IsBeyond(x) \/ IsBeyond(y) THEN Beyond
    ELSE IF y.den # 1 THEN Beyond
    ELSE IF y.num >= 0 THEN PowNat(x, y.num)
    ELSE IF x.num = 0 THEN Beyond
    ELSE PowNat(Div(One, x), 0 - y.num)

----------------------------------------------------------------------------
(* <cctype> *)

Digits == <<"0", "1", "2", "3", "4", "5", "6", "7", "8", "9">>

isdigit(c) == \E k \in 1..10 : Digits[k] = c

DigitValue(c) == (CHOOSE k \in 1..10 : Digits[k] = c) - 1

isspace(c) == c = " "

----------------------------------------------------------------------------
(* exceptions: a stage returns [type, what] with type "none" on success *)

NoExc == [type |-> "none", what |-> ""]

RuntimeError(w) == [type |-> "runtime_error", what |-> w]

OutOfRange(w) == [type |-> "out_of_range", what |-> w]

----------------------------------------------------------------------------
(* Token: struct Token {type, value, op}; an absent op is the char 0 *)

NUL == ""

NumberToken(v) == [type |-> "NUMBER", value |-> v, op |-> NUL]

OperatorToken(c) == [type |-> "OPERATOR", value |-> Zero, op |-> c]

ParenLeftToken == [type |-> "PAREN_LEFT", value |-> Zero, op |-> NUL]

ParenRightToken == [type |-> "PAREN_RIGHT", value |-> Zero, op |-> NUL]

----------------------------------------------------------------------------
(* Calculator (src/clean/main.cpp) *)

precedence(op) ==
    CASE op \in {"+", "-"} -> 1
      [] op \in {"*", "/"} -> 2
      [] op = "u" -> 3
      [] op = "^" -> 4
      [] op = "%" -> 5
      [] OTHER -> 0

\* mutant: the operands taken in the order they are popped (right, then left)
applyOperation_swapped(x, y, op) ==
    CASE op = "+" -> [exc |-> NoExc, value |-> Add(y, x)]
      [] op = "-" -> [exc |-> NoExc, value |-> Sub(y, x)]
      [] op = "*" -> [exc |-> NoExc, value |-> Mul(y, x)]
      [] op = "/" ->
            IF x = Zero
            THEN [exc |-> RuntimeError("Division by zero!"), value |-> Zero]
            ELSE [exc |-> NoExc, value |-> Div(y, x)]
      [] op = "^" -> [exc |-> NoExc, value |-> pow(y, x)]
      [] OTHER -> [exc |-> RuntimeError("Unknown operator"), value |-> Zero]

\* [exc, value]
applyOperation(x, y, op) ==
    CASE op = "+" -> [exc |-> NoExc, value |-> Add(x, y)]
      [] op = "-" -> [exc |-> NoExc, value |-> Sub(x, y)]
      [] op = "*" -> [exc |-> NoExc, value |-> Mul(x, y)]
      [] op = "/" ->
            IF y = Zero
            THEN [exc |-> RuntimeError("Division by zero!"), value |-> Zero]
            ELSE [exc |-> NoExc, value |-> Div(x, y)]
      [] op = "^" -> [exc |-> NoExc, value |-> pow(x, y)]
      [] OTHER -> [exc |-> RuntimeError("Unknown operator"), value |-> Zero]

\* Largest decimal exponent of a finite double (DBL_MAX is about 1.8e308).
DBL_MAX_10_EXP == 308

RECURSIVE DigitsValue(_)
DigitsValue(ds) ==
    IF ds = <<>> THEN 0
    ELSE 10 * DigitsValue(SubSeq(ds, 1, Len(ds) - 1)) + DigitValue(ds[Len(ds)])

RECURSIVE Pow10(_)
Pow10(k) == IF k = 0 THEN 1 ELSE 10 * Pow10(k - 1)

\* std::stod on a run of digits with at most one '.': [exc, value].  It throws
\* std::out_of_range when the literal exceeds the range of double: always
\* with more than DBL_MAX_10_EXP + 1 integer digits, and with exactly that
\* many when the leading digit is 2 or more.
stod(numStr) ==
    LET dot   == {k \in 1..Len(numStr) : numStr[k] = "."}
        ip    == IF dot = {} THEN numStr
                 ELSE SubSeq(numStr, 1, (CHOOSE k \in dot : TRUE) - 1)
        fp    == IF dot = {} THEN <<>>
                 ELSE SubSeq(numStr, (CHOOSE k \in dot : TRUE) + 1, Len(numStr))
        nz    == {k \in 1..Len(ip) : ip[k] # "0"}
        first == IF nz = {} THEN Len(ip) + 1
                 ELSE CHOOSE k \in nz : \A j \in nz : k <= j
        sig   == Len(ip) - first + 1
    IN  IF sig > DBL_MAX_10_EXP + 1
           \/ (sig = DBL_MAX_10_EXP + 1 /\ DigitValue(ip[first]) >= 2)
        THEN [exc |-> OutOfRange("stod"), value |-> Zero]
        ELSE IF Len(ip) + Len(fp) > MaxExactDigits
        THEN [exc |-> NoExc, value |-> Beyond]
        ELSE [exc |-> NoExc,
              value |-> Rat(DigitsValue(ip \o fp), Pow10(Len(fp)))]

\* the inner while of tokenize (lines 98-110) from index i: [exc, i, numStr].
\* It consumes the maximal run of digits and '.', and throws at the second '.'.
ScanNumber(e, i) ==
    LET stops == {k \in i..Len(e) : ~(isdigit(e[k]) \/ e[k] = ".")}
        j     == IF stops = {} THEN Len(e) + 1
                 ELSE CHOOSE k \in stops : \A m \in stops : k <= m
        dots  == {k \in i..(j - 1) : e[k] = "."}
    IN  IF Cardinality(dots) >= 2
        THEN [exc |-> RuntimeError("Invalid number: multiple decimal points."),
              i |-> i, numStr |-> <<>>]
        ELSE [exc |-> NoExc, i |-> j, numStr |-> SubSeq(e, i, j - 1)]

\* the while of tokenize from index i (1-based) with the tokens so far
RECURSIVE TokenizeFrom(_, _, _)
TokenizeFrom(e, i, toks) ==
    IF i > Len(e) THEN [exc |-> NoExc, tokens |-> toks]
    ELSE LET c == e[i] IN
      IF isspace(c) THEN TokenizeFrom(e, i + 1, toks)
      ELSE IF c = "-" /\ (i = 1 \/ toks = <<>>
                          \/ toks[Len(toks)].type = "OPERATOR"
                          \/ toks[Len(toks)].type = "PAREN_LEFT")
      THEN TokenizeFrom(e, i + 1, Append(toks, OperatorToken("u")))
      ELSE IF isdigit(c) \/ (c = "." /\ i + 1 <= Len(e) /\ isdigit(e[i + 1]))
      THEN LET n == ScanNumber(e, i) IN
           IF n.exc # NoExc THEN [exc |-> n.exc, tokens |-> toks]
           ELSE LET v == stod(n.numStr) IN
                IF v.exc # NoExc THEN [exc |-> v.exc, tokens |-> toks]
                ELSE TokenizeFrom(e, n.i, Append(toks, NumberToken(v.value)))
      ELSE IF c \in {"+", "-", "*", "/", "^", "%"}
      THEN TokenizeFrom(e, i + 1, Append(toks, OperatorToken(c)))
      ELSE IF c = "("
      THEN TokenizeFrom(e, i + 1, Append(toks, ParenLeftToken))
      ELSE IF c = ")"
      THEN TokenizeFrom(e, i + 1, Append(toks, ParenRightToken))
      ELSE [exc |-> RuntimeError("Unknown character"), tokens |-> toks]

\* mutant: unknown characters are skipped instead of rejected
tokenize_skipping(e) ==
    TokenizeFrom(SelectSeq(e, LAMBDA c : c # "x"), 1, <<>>)

\* mutant: the token vector is a member that is never cleared
tokenize_member(e) == TokenizeFrom(e, 1, tokens)

\* Calculator::tokenize on expr = e: [exc, tokens]
tokenize(e) == TokenizeFrom(e, 1, <<>>)

\* mutant: '^' treated as left-associative
isRightAssociative_left(op) == op \in {"u", "%"}

isRightAssociative(op) == op \in {"^", "u", "%"}

\* the while of toPostfix's OPERATOR branch (lines 156-166): [output, opStack]
RECURSIVE PopOperators(_, _, _)
PopOperators(tok, output, opStack) ==
    IF opStack # <<>> /\ opStack[Len(opStack)].type = "OPERATOR"
    THEN LET topOp == opStack[Len(opStack)].op IN
         IF (~isRightAssociative(tok.op)
               /\ precedence(topOp) >= precedence(tok.op))
            \/ (isRightAssociative(tok.op)
               /\ precedence(topOp) > precedence(tok.op))
         THEN PopOperators(tok, Append(output, opStack[Len(opStack)]),
                           SubSeq(opStack, 1, Len(opStack) - 1))
         ELSE [output |-> output, opStack |-> opStack]
    ELSE [output |-> output, opStack |-> opStack]

\* the while of toPostfix's PAREN_RIGHT branch (lines 175-179)
RECURSIVE PopToParen(_, _)
PopToParen(output, opStack) ==
    IF opStack # <<>> /\ opStack[Len(opStack)].type # "PAREN_LEFT"
    THEN PopToParen(Append(output, opStack[Len(opStack)]),
                    SubSeq(opStack, 1, Len(opStack) - 1))
    ELSE [output |-> output, opStack |-> opStack]

\* mutant: the final while pops a left parenthesis like an operator
RECURSIVE Drain_unchecked(_, _)
Drain_unchecked(output, opStack) ==
    IF opStack = <<>> THEN [exc |-> NoExc, postfix |-> output]
    ELSE Drain_unchecked(Append(output, opStack[Len(opStack)]),
                         SubSeq(opStack, 1, Len(opStack) - 1))

\* the final while of toPostfix (lines 188-195): [exc, postfix]
RECURSIVE Drain(_, _)
Drain(output, opStack) ==
    IF opStack = <<>> THEN [exc |-> NoExc, postfix |-> output]
    ELSE IF opStack[Len(opStack)].type = "PAREN_LEFT"
    THEN [exc |-> RuntimeError("Mismatched parentheses: unclosed '('"),
          postfix |-> output]
    ELSE Drain(Append(output, opStack[Len(opStack)]),
               SubSeq(opStack, 1, Len(opStack) - 1))

\* the for of toPostfix from token k: [exc, postfix]
RECURSIVE ToPostfixFrom(_, _, _, _)
ToPostfixFrom(toks, k, output, opStack) ==
    IF k > Len(toks) THEN Drain(output, opStack)
    ELSE LET tok == toks[k] IN
      IF tok.type = "NUMBER"
      THEN ToPostfixFrom(toks, k + 1, Append(output, tok), opStack)
      ELSE IF tok.type = "OPERATOR"
      THEN LET p == PopOperators(tok, output, opStack) IN
           ToPostfixFrom(toks, k + 1, p.output, Append(p.opStack, tok))
      ELSE IF tok.type = "PAREN_LEFT"
      THEN ToPostfixFrom(toks, k + 1, output, Append(opStack, tok))
      ELSE LET p == PopToParen(output, opStack) IN
           IF p.opStack = <<>>
           THEN [exc |-> RuntimeError("Mismatched parentheses: unexpected ')'"),
                 postfix |-> p.output]
           ELSE ToPostfixFrom(toks, k + 1, p.output,
                              SubSeq(p.opStack, 1, Len(p.opStack) - 1))

toPostfix(toks) == ToPostfixFrom(toks, 1, <<>>, <<>>)

\* the for of evaluatePostfix from token k with stack s: [exc, st]
RECURSIVE EvaluateFrom(_, _, _)
EvaluateFrom(pf, k, s) ==
    IF k > Len(pf) THEN [exc |-> NoExc, st |-> s]
    ELSE LET tok == pf[k] IN
      IF tok.type = "NUMBER"
      THEN EvaluateFrom(pf, k + 1, Append(s, tok.value))
      ELSE IF tok.type = "OPERATOR"
      THEN IF tok.op = "u"
           THEN IF s = <<>>
                THEN [exc |-> RuntimeError(
                         "Invalid expression: missing operand for unary minus."),
                      st |-> s]
                ELSE EvaluateFrom(pf, k + 1,
                       Append(SubSeq(s, 1, Len(s) - 1), Neg(s[Len(s)])))
           ELSE IF tok.op = "%"
           THEN IF s = <<>>
                THEN [exc |-> RuntimeError(
                         "Invalid expression: missing operand for '%'."),
                      st |-> s]
                ELSE EvaluateFrom(pf, k + 1,
                       Append(SubSeq(s, 1, Len(s) - 1),
                              Div(s[Len(s)], [num |-> 100, den |-> 1])))
           ELSE IF Len(s) < 2
                THEN [exc |-> RuntimeError(
                         "Invalid expression: missing operand for binary operator."),
                      st |-> s]
                ELSE LET y == s[Len(s)]
                         x == s[Len(s) - 1]
                         r == applyOperation(x, y, tok.op)
                     IN  IF r.exc # NoExc
                         THEN [exc |-> r.exc, st |-> SubSeq(s, 1, Len(s) - 2)]
                         ELSE EvaluateFrom(pf, k + 1,
                                Append(SubSeq(s, 1, Len(s) - 2), r.value))
      ELSE EvaluateFrom(pf, k + 1, s)

\* Calculator::evaluatePostfix: [exc, value, st]
evaluatePostfix(pf) ==
    LET r == EvaluateFrom(pf, 1, <<>>) IN
    IF r.exc # NoExc THEN [exc |-> r.exc, value |-> Zero, st |-> r.st]
    ELSE IF Len(r.st) # 1
    THEN [exc |-> RuntimeError(
             "Invalid expression: malformed expression or missing operators."),
          value |-> Zero, st |-> r.st]
    ELSE [exc |-> NoExc, value |-> r.st[1], st |-> r.st]

----------------------------------------------------------------------------
(* Calculator (src/main.cpp), the build with trace prints *)

\* mutant: the unary minus raised above '^' in this copy of the table only
precedenceT_diverged(op) ==
    CASE op \in {"+", "-"} -> 1
      [] op \in {"*", "/"} -> 2
      [] op = "^" -> 3
      [] op = "u" -> 4
      [] op = "%" -> 5
      [] OTHER -> 0

precedenceT(op) ==
    CASE op \in {"+", "-"} -> 1
      [] op \in {"*", "/"} -> 2
      [] op = "u" -> 3
      [] op = "^" -> 4
      [] op = "%" -> 5
      [] OTHER -> 0

\* [exc, value]
applyOperationT(x, y, op) ==
    CASE op = "+" -> [exc |-> NoExc, value |-> Add(x, y)]
      [] op = "-" -> [exc |-> NoExc, value |-> Sub(x, y)]
      [] op = "*" -> [exc |-> NoExc, value |-> Mul(x, y)]
      [] op = "/" ->
            IF y = Zero
            THEN [exc |-> RuntimeError("Division by zero!"), value |-> Zero]
            ELSE [exc |-> NoExc, value |-> Div(x, y)]
      [] op = "^" -> [exc |-> NoExc, value |-> pow(x, y)]
      [] OTHER -> [exc |-> RuntimeError("Unknown operator"), value |-> Zero]

\* the inner while of tokenizeT (lines 121-133) from index i: [exc, i, numStr].
\* It consumes the maximal run of digits and '.', and throws at the second '.'.
ScanNumberT(e, i) ==
    LET stops == {k \in i..Len(e) : ~(isdigit(e[k]) \/ e[k] = ".")}
        j     == IF stops = {} THEN Len(e) + 1
                 ELSE CHOOSE k \in stops : \A m \in stops : k <= m
        dots  == {k \in i..(j - 1) : e[k] = "."}
    IN  IF Cardinality(dots) >= 2
        THEN [exc |-> RuntimeError("Invalid number: multiple decimal points."),
              i |-> i, numStr |-> <<>>]
        ELSE [exc |-> NoExc, i |-> j, numStr |-> SubSeq(e, i, j - 1)]

\* the while of tokenizeT from index i (1-based) with the tokens so far
RECURSIVE TokenizeFromT(_, _, _)
TokenizeFromT(e, i, toks) ==
    IF i > Len(e) THEN [exc |-> NoExc, tokens |-> toks]
    ELSE LET c == e[i] IN
      IF isspace(c) THEN TokenizeFromT(e, i + 1, toks)
      ELSE IF c = "-" /\ (i = 1 \/ toks = <<>>
                          \/ toks[Len(toks)].type = "OPERATOR"
                          \/ toks[Len(toks)].type = "PAREN_LEFT")
      THEN TokenizeFromT(e, i + 1, Append(toks, OperatorToken("u")))
      ELSE IF isdigit(c) \/ (c = "." /\ i + 1 <= Len(e) /\ isdigit(e[i + 1]))
      THEN LET n == ScanNumberT(e, i) IN
           IF n.exc # NoExc THEN [exc |-> n.exc, tokens |-> toks]
           ELSE LET v == stod(n.numStr) IN
                IF v.exc # NoExc THEN [exc |-> v.exc, tokens |-> toks]
                ELSE TokenizeFromT(e, n.i, Append(toks, NumberToken(v.value)))
      ELSE IF c \in {"+", "-", "*", "/", "^", "%"}
      THEN TokenizeFromT(e, i + 1, Append(toks, OperatorToken(c)))
      ELSE IF c = "("
      THEN TokenizeFromT(e, i + 1, Append(toks, ParenLeftToken))
      ELSE IF c = ")"
      THEN TokenizeFromT(e, i + 1, Append(toks, ParenRightToken))
      ELSE [exc |-> RuntimeError("Unknown character"), tokens |-> toks]

\* Calculator::tokenizeT on expr = e: [exc, tokens]
tokenizeT(e) == TokenizeFromT(e, 1, <<>>)

isRightAssociativeT(op) == op \in {"^", "u", "%"}

\* the while of toPostfixT's OPERATOR branch (lines 190-200): [output, opStack]
RECURSIVE PopOperatorsT(_, _, _)
PopOperatorsT(tok, output, opStack) ==
    IF opStack # <<>> /\ opStack[Len(opStack)].type = "OPERATOR"
    THEN LET topOp == opStack[Len(opStack)].op IN
         IF (~isRightAssociativeT(tok.op)
               /\ precedenceT(topOp) >= precedenceT(tok.op))
            \/ (isRightAssociativeT(tok.op)
               /\ precedenceT(topOp) > precedenceT(tok.op))
         THEN PopOperatorsT(tok, Append(output, opStack[Len(opStack)]),
                           SubSeq(opStack, 1, Len(opStack) - 1))
         ELSE [output |-> output, opStack |-> opStack]
    ELSE [output |-> output, opStack |-> opStack]

\* the while of toPostfixT's PAREN_RIGHT branch (lines 209-213)
RECURSIVE PopToParenT(_, _)
PopToParenT(output, opStack) ==
    IF opStack # <<>> /\ opStack[Len(opStack)].type # "PAREN_LEFT"
    THEN PopToParenT(Append(output, opStack[Len(opStack)]),
                    SubSeq(opStack, 1, Len(opStack) - 1))
    ELSE [output |-> output, opStack |-> opStack]

\* the final while of toPostfixT (lines 222-229): [exc, postfix]
RECURSIVE DrainT(_, _)
DrainT(output, opStack) ==
    IF opStack = <<>> THEN [exc |-> NoExc, postfix |-> output]
    ELSE IF opStack[Len(opStack)].type = "PAREN_LEFT"
    THEN [exc |-> RuntimeError("Mismatched parentheses: unclosed '('"),
          postfix |-> output]
    ELSE DrainT(Append(output, opStack[Len(opStack)]),
               SubSeq(opStack, 1, Len(opStack) - 1))

\* the for of toPostfixT from token k: [exc, postfix]
RECURSIVE ToPostfixFromT(_, _, _, _)
ToPostfixFromT(toks, k, output, opStack) ==
    IF k > Len(toks) THEN DrainT(output, opStack)
    ELSE LET tok == toks[k] IN
      IF tok.type = "NUMBER"
      THEN ToPostfixFromT(toks, k + 1, Append(output, tok), opStack)
      ELSE IF tok.type = "OPERATOR"
      THEN LET p == PopOperatorsT(tok, output, opStack) IN
           ToPostfixFromT(toks, k + 1, p.output, Append(p.opStack, tok))
      ELSE IF tok.type = "PAREN_LEFT"
      THEN ToPostfixFromT(toks, k + 1, output, Append(opStack, tok))
      ELSE LET p == PopToParenT(output, opStack) IN
           IF p.opStack = <<>>
           THEN [exc |-> RuntimeError("Mismatched parentheses: unexpected ')'"),
                 postfix |-> p.output]
           ELSE ToPostfixFromT(toks, k + 1, p.output,
                              SubSeq(p.opStack, 1, Len(p.opStack) - 1))

toPostfixT(toks) == ToPostfixFromT(toks, 1, <<>>, <<>>)

\* what the trace build writes to std::cout
Printed(kind, op, nums) == [kind |-> kind, op |-> op, nums |-> nums]

\* the for of evaluatePostfix from token k with stack s and the lines printed
\* so far: [exc, st, out]
RECURSIVE EvaluateFromT(_, _, _, _)
EvaluateFromT(pf, k, s, o) ==
    IF k > Len(pf) THEN [exc |-> NoExc, st |-> s, out |-> o]
    ELSE LET tok == pf[k] IN
      IF tok.type = "NUMBER"
      THEN EvaluateFromT(pf, k + 1, Append(s, tok.value),
                         Append(o, Printed("Push", NUL, <<tok.value>>)))
      ELSE IF tok.type = "OPERATOR"
      THEN IF tok.op = "u"
           THEN IF s = <<>>
                THEN [exc |-> RuntimeError(
                         "Invalid expression: missing operand for unary minus."),
                      st |-> s, out |-> o]
                ELSE LET x == s[Len(s)] IN
                     EvaluateFromT(pf, k + 1,
                       Append(SubSeq(s, 1, Len(s) - 1), Neg(x)),
                       Append(o, Printed("Unary minus applied", NUL,
                                         <<x, Neg(x)>>)))
           ELSE IF tok.op = "%"
           THEN IF s = <<>>
                THEN [exc |-> RuntimeError(
                         "Invalid expression: missing operand for '%'."),
                      st |-> s, out |-> o]
                ELSE LET x == s[Len(s)]
                         r == Div(x, [num |-> 100, den |-> 1])
                     IN  EvaluateFromT(pf, k + 1,
                           Append(SubSeq(s, 1, Len(s) - 1), r),
                           Append(o, Printed("Percent applied", NUL, <<x, r>>)))
           ELSE IF Len(s) < 2
                THEN [exc |-> RuntimeError(
                         "Invalid expression: missing operand for binary operator."),
                      st |-> s, out |-> o]
                ELSE LET y == s[Len(s)]
                         x == s[Len(s) - 1]
                         r == applyOperationT(x, y, tok.op)
                     IN  IF r.exc # NoExc
                         THEN [exc |-> r.exc, st |-> SubSeq(s, 1, Len(s) - 2),
                               out |-> o]
                         ELSE EvaluateFromT(pf, k + 1,
                                Append(SubSeq(s, 1, Len(s) - 2), r.value),
                                Append(o, Printed("Applying", tok.op,
                                                  <<x, y, r.value>>)))
      ELSE EvaluateFromT(pf, k + 1, s, o)

\* Calculator::evaluatePostfix of the trace build: [exc, value, st, out]
evaluatePostfixT(pf) ==
    LET r == EvaluateFromT(pf, 1, <<>>, <<>>) IN
    IF r.exc # NoExc
    THEN [exc |-> r.exc, value |-> Zero, st |-> r.st, out |-> r.out]
    ELSE IF Len(r.st) # 1
    THEN [exc |-> RuntimeError(
             "Invalid expression: malformed expression or missing operators."),
          value |-> Zero, st |-> r.st, out |-> r.out]
    ELSE [exc |-> NoExc, value |-> r.st[1], st |-> r.st, out |-> r.out]

\* Calculator::debug: the lines it prints for a token vector
debug(toks, stage) ==
    <<Printed("Debug", stage, <<>>)>>
    \o [k \in 1..Len(toks) |->
          CASE toks[k].type = "NUMBER" ->
                 Printed("Number", NUL, <<toks[k].value>>)
            [] toks[k].type = "OPERATOR" ->
                 Printed("Operator", toks[k].op, <<>>)
            [] toks[k].type = "PAREN_LEFT" -> Printed("Paren", "(", <<>>)
            [] OTHER -> Printed("Paren", ")", <<>>)]
    \o <<Printed("DebugEnd", NUL, <<>>)>>

----------------------------------------------------------------------------
(* Application::run and Calculator::evaluateExpr, step by step *)

ExitLine == <<"e", "x", "i", "t">>

HelpLine == <<"h", "e", "l", "p">>

NoException == [type |-> "none", what |-> "", stage |-> ""]

Thrown(e, stage) == [type |-> e.type, what |-> e.what, stage |-> stage]

\* the outcome of one evaluateExpr call, as the history records it
Returned(v) == [type |-> "value", what |-> "", stage |-> "", value |-> v]

Failed(e, stage) ==
    [type |-> e.type, what |-> e.what, stage |-> stage, value |-> Zero]

Recorded(entry) ==
    IF Len(history) <= SessionLen THEN Append(history, entry) ELSE history

\* the stages as the running build has them
RunTokenize == IF build = "clean" THEN tokenize(expr) ELSE tokenizeT(expr)

RunToPostfix == IF build = "clean" THEN toPostfix(tokens) ELSE toPostfixT(tokens)

RunEvaluatePostfix ==
    IF build = "clean"
    THEN [out |-> <<>>] @@ evaluatePostfix(postfix)
    ELSE evaluatePostfixT(postfix)

RunDebug(toks, stage) == IF build = "clean" THEN <<>> ELSE debug(toks, stage)

\* run() begins with greet()
Greet ==
    /\ pc = "greet"
    /\ out' = Append(out, Printed("Banner", NUL, <<>>))
    /\ pc' = "prompt"
    /\ UNCHANGED <<build, stdin, expr, result, tokens, postfix, st, exc, err,
                   prev, history>>

\* the prompt and calc.inputExpr() with a line left on std::cin
InputExpr ==
    /\ pc = "prompt"
    /\ stdin # <<>>
    /\ expr' = Head(stdin)
    /\ stdin' = Tail(stdin)
    /\ out' = <<Printed("Prompt", NUL, <<>>)>>
    /\ err' = <<>>
    /\ prev' = result
    /\ exc' = NoException
    /\ pc' = "dispatch"
    /\ UNCHANGED <<build, result, tokens, postfix, st, history>>

\* the prompt and calc.inputExpr() at end of input: std::getline fails and
\* leaves expr empty
InputEOF ==
    /\ pc = "prompt"
    /\ stdin = <<>>
    /\ expr' = <<>>
    /\ out' = <<Printed("Prompt", NUL, <<>>)>>
    /\ err' = <<>>
    /\ prev' = result
    /\ exc' = NoException
    /\ pc' = "dispatch"
    /\ UNCHANGED <<build, stdin, result, tokens, postfix, st, history>>

Exit ==
    /\ pc = "dispatch"
    /\ expr = ExitLine
    /\ out' = Append(out, Printed("Program finished", NUL, <<>>))
    /\ pc' = "finished"
    /\ UNCHANGED <<build, stdin, expr, result, tokens, postfix, st, exc, err,
                   prev, history>>

Help ==
    /\ pc = "dispatch"
    /\ expr = HelpLine
    /\ out' = Append(out, Printed("Help", NUL, <<>>))
    /\ pc' = "prompt"
    /\ UNCHANGED <<build, stdin, expr, result, tokens, postfix, st, exc, err,
                   prev, history>>

\* evaluateExpr: auto tokens = tokenize(); (and debug(tokens, ...))
TokenizeReturns ==
    /\ pc = "dispatch"
    /\ expr \notin {ExitLine, HelpLine}
    /\ LET t == RunTokenize IN
       /\ t.exc = NoExc
       /\ tokens' = t.tokens
       /\ out' = out \o RunDebug(t.tokens, "After Tokenization")
    /\ pc' = "toPostfix"
    /\ UNCHANGED <<build, stdin, expr, result, postfix, st, exc, err, prev,
                   history>>

TokenizeThrows ==
    /\ pc = "dispatch"
    /\ expr \notin {ExitLine, HelpLine}
    /\ LET t == RunTokenize IN
       /\ t.exc # NoExc
       /\ tokens' = t.tokens
       /\ exc' = Thrown(t.exc, "tokenize")
       /\ history' = Recorded(<<expr, Failed(t.exc, "tokenize")>>)
    /\ pc' = "unwind"
    /\ UNCHANGED <<build, stdin, expr, result, postfix, st, out, err, prev>>

\* evaluateExpr: auto postfix = toPostfix(tokens); (and debug(postfix, ...))
ToPostfixReturns ==
    /\ pc = "toPostfix"
    /\ LET p == RunToPostfix IN
       /\ p.exc = NoExc
       /\ postfix' = p.postfix
       /\ out' = out \o RunDebug(p.postfix, "Postfix Conversion")
    /\ pc' = "evaluatePostfix"
    /\ UNCHANGED <<build, stdin, expr, result, tokens, st, exc, err, prev,
                   history>>

ToPostfixThrows ==
    /\ pc = "toPostfix"
    /\ LET p == RunToPostfix IN
       /\ p.exc # NoExc
       /\ postfix' = p.postfix
       /\ exc' = Thrown(p.exc, "toPostfix")
       /\ history' = Recorded(<<expr, Failed(p.exc, "toPostfix")>>)
    /\ pc' = "unwind"
    /\ UNCHANGED <<build, stdin, expr, result, tokens, st, out, err, prev>>

\* evaluateExpr: result = evaluatePostfix(postfix);
EvaluatePostfixReturns ==
    /\ pc = "evaluatePostfix"
    /\ LET r == RunEvaluatePostfix IN
       /\ r.exc = NoExc
       /\ st' = r.st
       /\ out' = out \o r.out
       /\ result' = r.value
       /\ history' = Recorded(<<expr, Returned(r.value)>>)
    /\ pc' = "displayResult"
    /\ UNCHANGED <<build, stdin, expr, tokens, postfix, exc, err, prev>>

EvaluatePostfixThrows ==
    /\ pc = "evaluatePostfix"
    /\ LET r == RunEvaluatePostfix IN
       /\ r.exc # NoExc
       /\ st' = r.st
       /\ out' = out \o r.out
       /\ exc' = Thrown(r.exc, "evaluatePostfix")
       /\ history' = Recorded(<<expr, Failed(r.exc, "evaluatePostfix")>>)
    /\ pc' = "unwind"
    /\ UNCHANGED <<build, stdin, expr, result, tokens, postfix, err, prev>>

\* calc.displayResult()
DisplayResult ==
    /\ pc = "displayResult"
    /\ out' = Append(out, Printed("Answer", NUL, <<result>>))
    /\ pc' = "prompt"
    /\ UNCHANGED <<build, stdin, expr, result, tokens, postfix, st, exc, err,
                   prev, history>>

\* catch (const std::runtime_error& exc)
Catch ==
    /\ pc = "unwind"
    /\ exc.type = "runtime_error"
    /\ err' = Append(err, Printed("Error", exc.what, <<>>))
    /\ pc' = "prompt"
    /\ UNCHANGED <<build, stdin, expr, result, tokens, postfix, st, exc, out,
                   prev, history>>

\* no handler matches: the exception leaves run() and main(), and
\* std::terminate ends the process
Terminate ==
    /\ pc = "unwind"
    /\ exc.type # "runtime_error"
    /\ pc' = "terminated"
    /\ UNCHANGED <<build, stdin, expr, result, tokens, postfix, st, exc, out,
                   err, prev, history>>

Next ==
    \/ Greet
    \/ InputExpr
    \/ InputEOF
    \/ Exit
    \/ Help
    \/ TokenizeReturns
    \/ TokenizeThrows
    \/ ToPostfixReturns
    \/ ToPostfixThrows
    \/ EvaluatePostfixReturns
    \/ EvaluatePostfixThrows
    \/ DisplayResult
    \/ Catch
    \/ Terminate

\* values the uninitialised member `double result` may hold at construction
Indeterminate == {Zero, [num |-> 7, den |-> 1]}

\* the state after `Application app;`, with `scripts` the inputs std::cin may hold
InitWith(scripts) ==
    /\ build \in {"clean", "trace"}
    /\ stdin \in scripts
    /\ expr = <<>>
    /\ result \in Indeterminate
    /\ pc = "greet"
    /\ tokens = <<>>
    /\ postfix = <<>>
    /\ st = <<>>
    /\ exc = NoException
    /\ out = <<>>
    /\ err = <<>>
    /\ prev = Zero
    /\ history = <<>>

----------------------------------------------------------------------------
(* The inputs the specifications draw from *)

\* Largest single-digit literal of the expression forms.
MaxDigit == 3

\* Longest line of the parenthesis alphabet.
MaxParenLen == 5

\* Most pieces concatenated into one line of the stage-ordering inputs.
MaxPieces == 3

\* Longest line of the token alphabet.
MaxLineLen == 3

BinOps == {"+", "-", "*", "/", "^"}

\* literals with the value each denotes, written down independently of stod
DigitLiterals ==
    {[text |-> <<Digits[k]>>, value |-> [num |-> k - 1, den |-> 1]] :
        k \in 1..(MaxDigit + 1)}

Literals ==
    DigitLiterals \cup
    {[text |-> <<"5", "0">>, value |-> [num |-> 50, den |-> 1]],
     [text |-> <<"1", ".", "5">>, value |-> [num |-> 3, den |-> 2]],
     [text |-> <<".", "2", "5">>, value |-> [num |-> 1, den |-> 4]]}

\* a literal too large for a double
HugeLiteral == [k \in 1..(DBL_MAX_10_EXP + 2) |-> "9"]

\* all strings over alphabet `cs` of length at most n
RECURSIVE StringsUpTo(_, _)
StringsUpTo(cs, n) ==
    IF n = 0 THEN {<<>>}
    ELSE LET shorter == StringsUpTo(cs, n - 1) IN
         shorter \cup {Append(w, c) : w \in shorter, c \in cs}

\* all concatenations of at most n of the strings `ps`
RECURSIVE ConcatsUpTo(_, _)
ConcatsUpTo(ps, n) ==
    IF n = 0 THEN {<<>>}
    ELSE LET shorter == ConcatsUpTo(ps, n - 1) IN
         shorter \cup {w \o q : w \in shorter, q \in ps}

\* all sequences of exactly n of the lines `ls`
RECURSIVE Sessions(_, _)
Sessions(ls, n) ==
    IF n = 0 THEN {<<>>}
    ELSE {Append(w, l) : w \in Sessions(ls, n - 1), l \in ls}

\* sessions that take every branch of run(): help, a result, exit; a lexer
\* error, a parenthesis error and end of input; an uncaught exception
CoverScripts ==
    {<<HelpLine, <<"1", "+", "1">>, ExitLine>>,
     <<<<"x">>, <<"(">>>>,
     <<HugeLiteral>>}

OneLine(lines) == {<<l, ExitLine>> : l \in lines} \cup CoverScripts

\* a op1 b op2 c
GroupingLines ==
    {a.text \o <<op1>> \o b.text \o <<op2>> \o c.text :
        a \in DigitLiterals, b \in DigitLiterals, c \in DigitLiterals,
        op1 \in BinOps, op2 \in BinOps}

\* a op b, a op -b, a%, a% op b
OperandLines ==
    {a.text \o <<op>> \o b.text : a \in Literals, b \in Literals, op \in BinOps}
    \cup {a.text \o <<op, "-">> \o b.text :
             a \in Literals, b \in Literals, op \in BinOps}
    \cup {a.text \o <<"%">> : a \in Literals}
    \cup {a.text \o <<"%", op>> \o b.text :
             a \in Literals, b \in Literals, op \in BinOps}

ParenLines == StringsUpTo({"1", "+", "(", ")"}, MaxParenLen)

StagePieces ==
    {<<"x">>, <<"1", ".", ".", "2">>, <<"(">>, <<")">>, <<"1", "/", "0">>,
     <<"2">>, <<"+">>, HugeLiteral}

StageLines == ConcatsUpTo(StagePieces, MaxPieces)

TokenLines == StringsUpTo({"1", " ", "+", "-", "%", "(", ")"}, MaxLineLen)

SessionLines ==
    {<<"1", "+", "2">>, <<"1", "/", "0">>, <<"(">>, <<"x">>, <<"-", "2">>,
     <<"1", " ", "2">>}

Init == InitWith(OneLine(TokenLines))

Spec == Init /\ [][Next]_vars

InitGrouping == InitWith(OneLine(GroupingLines))

SpecGrouping == InitGrouping /\ [][Next]_vars

InitOperand == InitWith(OneLine(OperandLines))

SpecOperand == InitOperand /\ [][Next]_vars

InitParens == InitWith(OneLine(ParenLines))

SpecParens == InitParens /\ [][Next]_vars

InitStages == InitWith(OneLine(StageLines))

SpecStages == InitStages /\ [][Next]_vars

InitBuilds ==
    InitWith(OneLine(GroupingLines \cup OperandLines \cup StageLines
                         \cup TokenLines))

SpecBuilds == InitBuilds /\ [][Next]_vars

InitSession == InitWith(Sessions(SessionLines, SessionLen) \cup CoverScripts)

SpecSession == InitSession /\ [][Next]_vars

----------------------------------------------------------------------------
(* What the claims speak of *)

\* evaluateExpr has returned / has thrown for the line in expr
Succeeded == pc = "displayResult"

Threw == pc = "unwind"

\* the arithmetic meaning of a binary operator, on doubles
Arith(op, x, y) ==
    CASE op = "+" -> Add(x, y)
      [] op = "-" -> Sub(x, y)
      [] op = "*" -> Mul(x, y)
      [] op = "/" -> Div(x, y)
      [] op = "^" -> pow(x, y)

DividesByZero(op, y) == op = "/" /\ y = Zero

Hundred == [num |-> 100, den |-> 1]

\* the value a literal text denotes
Denotes(text) == (CHOOSE l \in Literals : l.text = text).value

\* the ranks C1 states
ClaimedRank(op) ==
    CASE op \in {"+", "-"} -> 1
      [] op \in {"*", "/"} -> 2
      [] op = "^" -> 4

IsGroupingLine ==
    /\ Len(expr) = 5
    /\ isdigit(expr[1]) /\ isdigit(expr[3]) /\ isdigit(expr[5])
    /\ expr[2] \in BinOps /\ expr[4] \in BinOps

GroupsRight(op1, op2) ==
    \/ ClaimedRank(op2) > ClaimedRank(op1)
    \/ (ClaimedRank(op2) = ClaimedRank(op1) /\ op1 = "^")

\* a op1 (b op2 c) and (a op1 b) op2 c: [defined, value]
RightGrouped(a, op1, b, op2, c) ==
    IF DividesByZero(op2, c) \/ DividesByZero(op1, Arith(op2, b, c))
    THEN [defined |-> FALSE, value |-> Zero]
    ELSE [defined |-> TRUE, value |-> Arith(op1, a, Arith(op2, b, c))]

LeftGrouped(a, op1, b, op2, c) ==
    IF DividesByZero(op1, b) \/ DividesByZero(op2, c)
    THEN [defined |-> FALSE, value |-> Zero]
    ELSE [defined |-> TRUE, value |-> Arith(op2, Arith(op1, a, b), c)]

ClaimedGrouping(a, op1, b, op2, c) ==
    IF GroupsRight(op1, op2)
    THEN RightGrouped(a, op1, b, op2, c)
    ELSE LeftGrouped(a, op1, b, op2, c)

\* C1: 'a op1 b op2 c' that involves no division by zero evaluates to
\* a op1 (b op2 c) when op2 ranks strictly higher than op1 or both are '^',
\* and to (a op1 b) op2 c otherwise (ranks: + - 1, * / 2, ^ 4).
C1_Grouping ==
    (IsGroupingLine /\ (Succeeded \/ Threw)) =>
        LET g == ClaimedGrouping(Denotes(<<expr[1]>>), expr[2],
                                 Denotes(<<expr[3]>>), expr[4],
                                 Denotes(<<expr[5]>>))
        IN  g.defined =>
              /\ Succeeded
              /\ ~IsBeyond(g.value) => result = g.value

\* a line 'a^b^c' whose two groupings differ has been evaluated to a^(b^c)
C1_Witness ==
    /\ IsGroupingLine /\ Succeeded
    /\ expr[2] = "^" /\ expr[4] = "^"
    /\ LET a == Denotes(<<expr[1]>>)
           b == Denotes(<<expr[3]>>)
           c == Denotes(<<expr[5]>>)
       IN  /\ result = pow(a, pow(b, c))
           /\ ~IsBeyond(result)
           /\ result # pow(pow(a, b), c)


\* C2: for every binary operator op and literals a, b (b non-zero when op
\* is '/'), 'a op -b' evaluates successfully, to a op (-b).
C2_UnaryMinusAfterOperator ==
    \A a \in Literals, b \in Literals, op \in BinOps :
        (/\ expr = a.text \o <<op, "-">> \o b.text
         /\ Succeeded \/ Threw
         /\ ~(op = "/" /\ b.value = Zero)) =>
            /\ Succeeded
            /\ ~IsBeyond(Arith(op, a.value, Neg(b.value))) =>
                   result = Arith(op, a.value, Neg(b.value))

\* r is the double n/d (d > 0)
IsRatio(r, n, d) == r.den > 0 /\ r.num * d = n * r.den

\* C3: 'a%' evaluates to a/100, and 'a% op b' (b non-zero when op is '/')
\* evaluates successfully to (a/100) op b.
C3_PercentIsPostfix ==
    /\ \A a \in Literals :
         (expr = a.text \o <<"%">> /\ (Succeeded \/ Threw)) =>
            /\ Succeeded
            /\ IsRatio(result, a.value.num, 100 * a.value.den)
    /\ \A a \in Literals, b \in Literals, op \in BinOps :
         (/\ expr = a.text \o <<"%", op>> \o b.text
          /\ Succeeded \/ Threw
          /\ ~DividesByZero(op, b.value)) =>
            /\ Succeeded
            /\ ~IsBeyond(Arith(op, Div(a.value, Hundred), b.value)) =>
                   result = Arith(op, Div(a.value, Hundred), b.value)

\* r is op applied to the non-negative rationals a (left) and b (right)
IsApplied(op, a, b, r) ==
    CASE op = "+" -> IsRatio(r, a.num * b.den + b.num * a.den, a.den * b.den)
      [] op = "-" -> IsRatio(r, a.num * b.den - b.num * a.den, a.den * b.den)
      [] op = "*" -> IsRatio(r, a.num * b.num, a.den * b.den)
      [] op = "/" -> IsRatio(r, a.num * b.den, a.den * b.num)
      [] op = "^" -> IF b.num = 0 THEN r = One
                     ELSE b.den = 1 /\ IsRatio(r, a.num ^ b.num, a.den ^ b.num)

\* C4: 'a op b' evaluates to op applied to a as the left and b as the right
\* operand; a division by exactly 0 fails with the division-by-zero error
\* and returns no value.
C4_BinaryOperands ==
    \A a \in Literals, b \in Literals, op \in BinOps :
        (expr = a.text \o <<op>> \o b.text /\ (Succeeded \/ Threw)) =>
            IF op = "/" /\ b.value = Zero
            THEN /\ Threw
                 /\ exc.what = "Division by zero!"
                 /\ result = prev
            ELSE /\ Succeeded
                 /\ ~IsBeyond(result) => IsApplied(op, a.value, b.value, result)

\* '2-3' has been evaluated to -1 (not to 3 - 2)
C4_Witness ==
    /\ expr = <<"2", "-", "3">>
    /\ Succeeded
    /\ result = [num |-> 0 - 1, den |-> 1]


UnexpectedParen == "Mismatched parentheses: unexpected ')'"

UnclosedParen == "Mismatched parentheses: unclosed '('"

\* how many of the first i tokens have the given type
CountOf(toks, type, i) == Cardinality({k \in 1..i : toks[k].type = type})

\* some ')' has no unmatched '(' before it
HasUnmatchedRight(toks) ==
    \E i \in 1..Len(toks) :
        /\ toks[i].type = "PAREN_RIGHT"
        /\ CountOf(toks, "PAREN_RIGHT", i) > CountOf(toks, "PAREN_LEFT", i)

\* a '(' is still unmatched at the end of input
HasUnmatchedLeft(toks) ==
    CountOf(toks, "PAREN_LEFT", Len(toks))
        > CountOf(toks, "PAREN_RIGHT", Len(toks))

ToPostfixReturned == pc = "evaluatePostfix"

ToPostfixThrew == pc = "unwind" /\ exc.stage = "toPostfix"

\* C5: toPostfix fails with the unexpected-')' error exactly when some ')'
\* has no unmatched '(' before it; otherwise it fails with the unclosed-'('
\* error exactly when a '(' is still unmatched at the end; otherwise it
\* raises no parenthesis error.
C5_ParenErrors ==
    (ToPostfixReturned \/ ToPostfixThrew) =>
        /\ (ToPostfixThrew /\ exc.what = UnexpectedParen)
               <=> HasUnmatchedRight(tokens)
        /\ (ToPostfixThrew /\ exc.what = UnclosedParen)
               <=> (~HasUnmatchedRight(tokens) /\ HasUnmatchedLeft(tokens))
        /\ ToPostfixReturned
               <=> (~HasUnmatchedRight(tokens) /\ ~HasUnmatchedLeft(tokens))

\* toPostfix has failed with unclosed '(' on tokens that hold a matched pair
\* of parentheses as well
C5_Witness ==
    /\ ToPostfixThrew
    /\ exc.what = UnclosedParen
    /\ \E i \in 1..Len(tokens) : tokens[i].type = "PAREN_RIGHT"
    /\ ~HasUnmatchedRight(tokens)


\* the line holds a run of more than DBL_MAX_10_EXP + 1 digits that starts
\* with a non-zero digit
HasOverlongLiteral(e) ==
    /\ Len(e) > DBL_MAX_10_EXP + 1
    /\ \E i \in 1..(Len(e) - DBL_MAX_10_EXP - 1) :
          /\ isdigit(e[i]) /\ e[i] # "0"
          /\ \A k \in i..(i + DBL_MAX_10_EXP + 1) : isdigit(e[k])

\* the line holds an invalid character, a second decimal point or a literal
\* beyond the range of double
HasLexerDefect(e) ==
    \/ \E i \in 1..Len(e) :
          \/ e[i] = "x"
          \/ (i < Len(e) /\ e[i] = "." /\ e[i + 1] = ".")
    \/ HasOverlongLiteral(e)

CharCount(e, c, i) == Cardinality({k \in 1..i : e[k] = c})

\* the line holds an unmatched parenthesis
HasParenDefect(e) ==
    \/ \E i \in 1..Len(e) : CharCount(e, ")", i) > CharCount(e, "(", i)
    \/ CharCount(e, "(", Len(e)) > CharCount(e, ")", Len(e))

LexerErrors ==
    {"Unknown character", "Invalid number: multiple decimal points."}

\* C6: toPostfix is never invoked on an input for which tokenize fails, nor
\* evaluatePostfix on one for which toPostfix fails: an input with a lexer
\* defect fails in tokenize whatever else it holds (with one of the lexer's
\* messages when the exception is a runtime_error), an input without one
\* that holds an unmatched parenthesis fails in toPostfix with the
\* parenthesis error even when it divides by zero, and the error caught is
\* the one reported.
C6_StagesInSequence ==
    /\ pc = "toPostfix" => ~HasLexerDefect(expr)
    /\ pc = "evaluatePostfix" =>
           ~HasLexerDefect(expr) /\ ~HasParenDefect(expr)
    /\ (HasLexerDefect(expr) \/ HasParenDefect(expr)) => ~Succeeded
    /\ (Threw /\ HasLexerDefect(expr)) =>
           /\ exc.stage = "tokenize"
           /\ exc.type = "runtime_error" => exc.what \in LexerErrors
    /\ (Threw /\ ~HasLexerDefect(expr) /\ HasParenDefect(expr)) =>
           exc.stage = "toPostfix"
           /\ exc.what \in {UnexpectedParen, UnclosedParen}
    /\ (pc = "prompt" /\ exc.type # "none") =>
           err = <<Printed("Error", exc.what, <<>>)>>

\* a line with a division by zero before an unmatched parenthesis has failed
\* in toPostfix
C6_Witness ==
    /\ ToPostfixThrew
    /\ \E i \in 1..(Len(expr) - 2) :
         /\ SubSeq(expr, i, i + 2) = <<"1", "/", "0">>
         /\ \E j \in (i + 3)..Len(expr) : expr[j] \in {"(", ")"}
    /\ ~HasLexerDefect(expr)

\* the current line's evaluation has failed
EvaluationFailed == exc.type # "none"

ComputedKinds == {"Unary minus applied", "Percent applied", "Applying"}

\* C7: when the evaluation of a line fails, no 'Answer' is displayed, no
\* value computed from the line is written to the output stream, and the
\* stored result is unchanged.
C7_NoPartialResult ==
    EvaluationFailed =>
        /\ \A k \in 1..Len(out) :
               out[k].kind # "Answer" /\ out[k].kind \notin ComputedKinds
        /\ result = prev

\* C8: no input line makes an error escape the loop and end the process;
\* the loop ends only on the line 'exit'.
C8_ErrorsAreNonFatal ==
    /\ pc # "terminated"
    /\ pc = "finished" => expr = ExitLine

\* C9: within one session the same text yields the same result or the same
\* error every time it is evaluated, whatever was evaluated in between.
C9_DependsOnTextOnly ==
    \A i \in 1..Len(history), j \in 1..Len(history) :
        history[i][1] = history[j][1] => history[i][2] = history[j][2]

\* a line has been evaluated successfully, then a different line has failed,
\* then the first line has been evaluated again
C9_Witness ==
    /\ Len(history) >= 3
    /\ history[1][1] = history[3][1]
    /\ history[1][1] # history[2][1]
    /\ history[1][2].type = "value"
    /\ history[2][2].type = "runtime_error"

IsOperator(t, ops) == t.type = "OPERATOR" /\ t.op \in ops

\* the token sequence derives from
\* E ::= Number | unary-minus E | E '%' | E binop E | '(' E ')'
RECURSIVE IsExpression(_)
IsExpression(ts) ==
    LET n == Len(ts) IN
    \/ n = 1 /\ ts[1].type = "NUMBER"
    \/ n >= 2 /\ IsOperator(ts[1], {"u"}) /\ IsExpression(Tail(ts))
    \/ n >= 2 /\ IsOperator(ts[n], {"%"}) /\ IsExpression(SubSeq(ts, 1, n - 1))
    \/ n >= 3 /\ ts[1].type = "PAREN_LEFT" /\ ts[n].type = "PAREN_RIGHT"
              /\ IsExpression(SubSeq(ts, 2, n - 1))
    \/ \E k \in 2..(n - 1) :
          /\ IsOperator(ts[k], BinOps)
          /\ IsExpression(SubSeq(ts, 1, k - 1))
          /\ IsExpression(SubSeq(ts, k + 1, n))

\* C10: evaluateExpr returns a number only when the token sequence of the
\* input is a well-formed infix expression.
C10_OnlyWellFormedSucceeds ==
    Succeeded => IsExpression(tokens)


Operators == {"+", "-", "*", "/", "^", "%", "u"}

\* the exception a stage returned, as run() sees it in flight
SameException(e, stage) ==
    e.type = exc.type /\ e.what = exc.what /\ exc.stage = stage

\* C11: whichever build runs, the token sequence, the postfix sequence and
\* the outcome (the result or the exception) it reaches at each stage are
\* those the pipeline of src/clean/main.cpp and the pipeline of src/main.cpp
\* both compute, and the two copies of the precedence table and of the
\* associativity rule agree.
C11_BuildsAgree ==
    /\ \A op \in Operators :
         /\ precedence(op) = precedenceT(op)
         /\ isRightAssociative(op) = isRightAssociativeT(op)
    /\ pc = "toPostfix" =>
         /\ tokenize(expr) = [exc |-> NoExc, tokens |-> tokens]
         /\ tokenizeT(expr) = [exc |-> NoExc, tokens |-> tokens]
    /\ (Threw /\ exc.stage = "tokenize") =>
         /\ SameException(tokenize(expr).exc, "tokenize")
         /\ SameException(tokenizeT(expr).exc, "tokenize")
         /\ tokenize(expr).tokens = tokens
         /\ tokenizeT(expr).tokens = tokens
    /\ pc = "evaluatePostfix" =>
         /\ toPostfix(tokens) = [exc |-> NoExc, postfix |-> postfix]
         /\ toPostfixT(tokens) = [exc |-> NoExc, postfix |-> postfix]
    /\ (Threw /\ exc.stage = "toPostfix") =>
         /\ SameException(toPostfix(tokens).exc, "toPostfix")
         /\ SameException(toPostfixT(tokens).exc, "toPostfix")
         /\ toPostfix(tokens).postfix = postfix
         /\ toPostfixT(tokens).postfix = postfix
    /\ Succeeded =>
         /\ evaluatePostfix(postfix).exc = NoExc
         /\ evaluatePostfixT(postfix).exc = NoExc
         /\ evaluatePostfix(postfix).value = result
         /\ evaluatePostfixT(postfix).value = result
         /\ evaluatePostfix(postfix).st = st
         /\ evaluatePostfixT(postfix).st = st
    /\ (Threw /\ exc.stage = "evaluatePostfix") =>
         /\ SameException(evaluatePostfix(postfix).exc, "evaluatePostfix")
         /\ SameException(evaluatePostfixT(postfix).exc, "evaluatePostfix")
         /\ evaluatePostfix(postfix).st = st
         /\ evaluatePostfixT(postfix).st = st

\* the trace build has printed the steps of a line that applies a unary
\* minus and a binary operator, and returned what the clean pipeline computes
C11_Witness ==
    /\ build = "trace"
    /\ Succeeded
    /\ \E k \in 1..Len(out) : out[k].kind = "Applying"
    /\ \E k \in 1..Len(out) : out[k].kind = "Unary minus applied"
    /\ LET t == tokenize(expr)
           p == toPostfix(t.tokens)
       IN  /\ t.exc = NoExc /\ p.exc = NoExc
           /\ evaluatePostfix(p.postfix).value = result

====
